---- MODULE Spec2Model ----
(***************************************************************************)
(* The bookmark content scripts (Claude, ChatGPT, Gemini, Copilot), the     *)
(* shared helpers of base-content.ts, the site adapters and                 *)
(* BookmarkStorage, as one state machine.                                   *)
(*                                                                         *)
(* The host page is the environment: it renders and removes turns, changes  *)
(* the location and unloads; time passes.  The engine reacts through        *)
(* timers, the MutationObserver callback, the popstate/beforeunload         *)
(* listeners, marker clicks and chrome.storage completions.  Timers fire    *)
(* in any order; each carries the delay it was set with.                    *)
(*                                                                         *)
(* Next is the whole machine.  The properties are checked on restrictions   *)
(* of it (SpecScan, SpecStore, SpecSession, SpecBoot): the same actions     *)
(* under an environment that does less.                                     *)
(***************************************************************************)
EXTENDS Integers, Sequences, FiniteSets, TLC

\* ---------------------------------------------------------------- bounds
MaxTurns == 2          \* turn slots the host page can render
MaxMarkers == 2        \* .bookmark-button elements kept per turn
MaxPending == 2        \* settle-delay timers plus initializations awaiting their load
MaxChains == 2         \* bootstrap retry chains with a pending timer
MaxClicks == 2         \* marker activations (bookmark ids handed out)
MaxLeaked == 1         \* connected observers that are no longer referenced
MaxUnseen == 2         \* location changes between two location checks
MaxDays == 366         \* how far the clock advances, in days
MaxBurst == 3          \* mutation notifications counted in one burst
MaxDeletes == 1        \* Sidebar deletions in flight
MaxStamp == 2          \* days the clock advances on a page without conversation

\* ---------------------------------------------------- program constants
maxRetries == 10
retryIntervals == <<500, 1000, 1000, 2000, 2000, 3000, 3000, 5000, 5000, 5000>>
SettleDelay == 1000
QuietPeriod == 500
GeminiQuietPeriod == 800
MaxAncestorLevels == 5
ProximityMargin == 100
SampleLength == 300
PrefixLength == 20
MinAssistantLength == 10
ButtonSearchLevels == 10
OneYear == 365         \* 365 * 24 * 60 * 60 * 1000 ms, in days
MaxIdLength == 100
MaxNoteLength == 500
MaxTextLength == 1000
MaxUrlLength == 2000
SanitizedLength == 500
BookmarkIdLength == 59 \* "bookmark_" + 13 digits + "_" + a 36-character UUID
HrefLength == 40       \* window.location.href of a conversation page
TypedNoteLength == 600 \* what the user enters at the prompt

Sites == {"claude", "chatgpt", "gemini", "copilot"}
Roles == {"user", "assistant"}

\* The texts a turn can show, as sequences of char codes:
\* "Hi" and "Hello world".
Texts == { <<72, 105>>, <<72, 101, 108, 108, 111, 32, 119, 111, 114, 108, 100>> }

\* Texts for the fingerprint: "Hello world, how are you today, friend of
\* mine?", and two texts of 301 characters that differ in the last one only.
ScenarioText ==
  << 72, 101, 108, 108, 111, 32, 119, 111, 114, 108, 100, 44, 32, 104, 111, 119, 32, 97,
     114, 101, 32, 121, 111, 117, 32, 116, 111, 100, 97, 121, 44, 32, 102, 114, 105, 101,
     110, 100, 32, 111, 102, 32, 109, 105, 110, 101, 63 >>
LongText(c) == [k \in 1..(SampleLength + 1) |-> IF k <= SampleLength THEN 97 ELSE c]
FingerprintTexts == { ScenarioText, LongText(120), LongText(121) }

\* Texts for the hash: "Gycxe~", whose accumulator ends at -2^31, next to "Hi"
\* (positive), "Hello world" (negative) and a text longer than the sample.
EdgeText == << 71, 121, 99, 120, 101, 126 >>
HashTexts == Texts \cup { EdgeText, LongText(120) }

\* Locations, as the segments of window.location.pathname: two conversation
\* pages of the site.
ConversationNames == {"a", "b"}
ConversationPath(s) ==
  CASE s = "claude"  -> "chat"
    [] s = "chatgpt" -> "c"
    [] s = "gemini"  -> "app"
    [] OTHER         -> "chats"
Urls(s) == { << ConversationPath(s), c >> : c \in ConversationNames }

\* An id string is kept as << text, stamp >>: the text, then the Date.now() the
\* adapter appended to it (0: none).
Conversations == { << c, 0 >> : c \in ConversationNames }
NoConversation == << "", -1 >>

\* Where the host puts a turn's action bar: lvl is the number of parentElement
\* steps from the message element to the first ancestor whose subtree holds the
\* bar (0: inside the message element, -1: the turn has no action bar), dy the
\* vertical distance in px between the bar and the top of the message element.
\* The ancestors of a message element up to that level hold no other turn.
\* fails tells whether the host's container rejects the insertion of a child
\* with an exception.
Layouts == { [lvl |-> -1, dy |-> 0, fails |-> FALSE],
             [lvl |-> 0, dy |-> 20, fails |-> FALSE],
             [lvl |-> 2, dy |-> 60, fails |-> FALSE],
             [lvl |-> 2, dy |-> 140, fails |-> FALSE] }

\* A short user turn with its action bar inside the message element.
PlainText == <<72, 105>>
PlainLayout == [lvl |-> 0, dy |-> 20, fails |-> FALSE]

\* The same turn in a container whose insertBefore / appendChild throws.
FaultyLayout == [lvl |-> 0, dy |-> 20, fails |-> TRUE]

\* How much time passes at once.
Leaps == {OneYear, OneYear + 1}

NoId == <<>>
NoLayout == [lvl |-> -1, dy |-> 0, fails |-> FALSE]
NoTurn == [present |-> FALSE, role |-> "user", text |-> <<>>, layout |-> NoLayout,
           dataId |-> NoId, markers |-> <<>>]
NoBookmark == [id |-> 0]
Slots == 1..MaxTurns

\* ------------------------------------------------------------ fingerprint
\* simpleHash keeps a 32-bit accumulator; it is held as the two 16-bit limbs
\* <<hi, lo>> of its two's complement, so that no step leaves the integers TLC
\* computes with.
\* hash << 5
ShiftLeft5(h) == << (h[1] * 32 + (h[2] \div 2048)) % 65536, (h[2] * 32) % 65536 >>

\* A step that leaves out the subtraction: (hash << 5) + char.
HashStepShiftOnly(h, c) ==
  LET s == ShiftLeft5(h)
      lo == s[2] + c
      hi == s[1] + (lo \div 65536)
  IN  << hi % 65536, lo % 65536 >>

\* hash = ((hash << 5) - hash) + char; hash = hash & hash
HashStep(h, c) ==
  LET s == ShiftLeft5(h)
      lo == s[2] - h[2] + c + 65536
      hi == s[1] - h[1] + 65536 + (lo \div 65536) - 1
  IN  << hi % 65536, lo % 65536 >>

\* The loop over str[lo..hi], left to right, evaluated by halves.  Here and
\* below, a one-element set { e } under a quantified name binds the value of e
\* before it is used, so that it is computed once.
RECURSIVE HashRange(_, _, _, _)
HashRange(str, lo, hi, h) ==
  IF lo > hi THEN h
  ELSE IF lo = hi THEN HashStep(h, str[lo])
  ELSE LET mid == (lo + hi) \div 2
       IN  CHOOSE r \in { HashRange(str, mid + 1, hi, left) :
                            left \in { HashRange(str, lo, mid, h) } } : TRUE

HashFrom(str, i, h) == HashRange(str, i, Len(str), h)

\* Math.abs of the signed 32-bit value, still as limbs (2^31 stays 2^31).
AbsLimbs(h) ==
  IF h[1] < 32768 THEN h
  ELSE << (65535 - h[1] + (IF h[2] = 0 THEN 1 ELSE 0)) % 65536, (65536 - h[2]) % 65536 >>

\* Number.prototype.toString(36): the digits, most significant first.
RECURSIVE ToBase36(_)
ToBase36(h) ==
  LET r1 == h[1] % 36
      q1 == h[1] \div 36
      low == r1 * 65536 + h[2]
      q == << q1 + (low \div 36) \div 65536, (low \div 36) % 65536 >>
      d == low % 36
  IN  IF q = <<0, 0>> THEN <<d>>
      ELSE CHOOSE r \in { Append(ToBase36(v), d) : v \in {q} } : TRUE

simpleHash(str) ==
  CHOOSE r \in { ToBase36(v) : v \in { AbsLimbs(HashFrom(str, 1, <<0, 0>>)) } } : TRUE

substring(str, n) == SubSeq(str, 1, IF Len(str) < n THEN Len(str) ELSE n)

IsAlnum(c) == (c >= 48 /\ c <= 57) \/ (c >= 65 /\ c <= 90) \/ (c >= 97 /\ c <= 122)
\* A toLowerCase that leaves the character as it is.
toLowerCaseIdentity(c) == c
toLowerCase(c) == IF c >= 65 /\ c <= 90 THEN c + 32 ELSE c

RECURSIVE AlnumLower(_)
AlnumLower(str) ==
  IF str = <<>> THEN <<>>
  ELSE IF IsAlnum(Head(str)) THEN <<toLowerCase(Head(str))>> \o AlnumLower(Tail(str))
  ELSE AlnumLower(Tail(str))

\* A fingerprint that hashes the whole text.
generateStableMessageIdWhole(role, text) ==
  << role, AlnumLower(substring(text, PrefixLength)), simpleHash(text) >>

generateStableMessageId(role, text) ==
  << role, AlnumLower(substring(text, PrefixLength)), simpleHash(substring(text, SampleLength)) >>

\* ------------------------------------------------------------------ state
VARIABLES
  site,                 \* which site's content script this is
  url,                  \* window.location.href
  now,                  \* Date.now(), in days
  dom,                  \* the rendered turns, by vertical position
  lastUrl,              \* let lastUrl
  currentPlatform,      \* let currentPlatform (FALSE: null)
  observer,             \* let observer: "null", "connected" or "disconnected"
  leaked,               \* connected observers the variable no longer refers to
  injectionTimeout,     \* let injectionTimeout: "null", "live" or "stale" (fired or cleared)
  debounceTimers,       \* pending debounce timers [delay, old], the newest last
  processedMessageIds,  \* let processedMessageIds
  bookmarkedMessageIds, \* base-content: bookmarkedMessageIds
  bookmarksMap,         \* base-content: bookmarksMap, messageId -> Bookmark
  initTimers,           \* pending setTimeout(initializeExtension, 1000), by delay
  inits,                \* initializeExtension calls awaiting their load, per conversationId
  retryTimers,          \* pending retry timers [n |-> retryCount, delay, old]
  store,                \* chrome.storage.local[ai_chat_bookmarks]
  ops,                  \* handleBookmarkClick calls inside BookmarkStorage.save
  nextId,               \* source of fresh bookmark ids
  currentConversationId,\* sidebar/index: currentConversationId of the mounted Sidebar
  deletes,              \* Sidebar handleDelete calls inside BookmarkStorage.delete
  unseen,               \* observation: location changes since the last location check
  awaiting,             \* observation: the load a reconcile pass has to wait for
  last                  \* observation: what the last step did

vars == << site, url, now, dom, lastUrl, currentPlatform, observer, leaked,
           injectionTimeout, debounceTimers, processedMessageIds, bookmarkedMessageIds,
           bookmarksMap, initTimers, inits, retryTimers, store, ops, nextId,
           currentConversationId, deletes, unseen, awaiting, last >>

\* ---------------------------------------------------------------- helpers
RemoveAt(s, k) == SubSeq(s, 1, k - 1) \o SubSeq(s, k + 1, Len(s))
Front(s) == SubSeq(s, 1, Len(s) - 1)
Range(s) == { s[k] : k \in 1..Len(s) }

\* The pending retry timers are a bag: kept as a sequence ordered by retryCount.
TimerKey(t) == 2 * t.n + (IF t.old THEN 1 ELSE 0)
RECURSIVE InsertTimer(_, _)
InsertTimer(s, t) ==
  IF s = <<>> THEN <<t>>
  ELSE IF TimerKey(t) <= TimerKey(Head(s)) THEN <<t>> \o s
  ELSE <<Head(s)>> \o InsertTimer(Tail(s), t)
AddTimers(timers, new) == IF new = <<>> THEN timers ELSE InsertTimer(timers, new[1])

RECURSIVE SumOver(_, _)
SumOver(f, S) ==
  IF S = {} THEN 0 ELSE LET x == CHOOSE y \in S : TRUE IN f[x] + SumOver(f, S \ {x})

RECURSIVE trimLeft(_)
trimLeft(str) == IF str # <<>> /\ Head(str) = 32 THEN trimLeft(Tail(str)) ELSE str
RECURSIVE trimRight(_)
trimRight(str) ==
  IF str # <<>> /\ str[Len(str)] = 32 THEN trimRight(Front(str)) ELSE str
trim(str) == trimRight(trimLeft(str))

\* What a step leaves in last: the handler that ran (kind), the retryCount of
\* the retry timer that fired or the number of notifications the debounce
\* timer that fired stood for (n), whether the timer that fired was set before
\* the last teardown (old), how many timers of the kind concerned were pending
\* before the step (left), and for a save the record its pair had in the store
\* when it started with no other save in flight (prior), whether a save of
\* the same pair was in flight when it read the store (raced), the Bookmark the
\* save was called with or the record a delete removed (bm), the CustomEvent
\* the step dispatched on window (event) and whether it raised an alert (alert).
NoStep == [kind |-> "none", n |-> 0, old |-> FALSE, left |-> 0,
           prior |-> NoBookmark, raced |-> FALSE, bm |-> NoBookmark,
           event |-> "none", alert |-> FALSE, loaded |-> FALSE, inserted |-> {},
           threw |-> FALSE, escaped |-> FALSE, target |-> 0]
Step(kind) == [NoStep EXCEPT !.kind = kind]
Scans == {"init", "retry", "debounce"}
Checks == {"poll", "popstate"}

\* awaiting: no load is awaited, any load will do (startup), or a conversationId.
NoLoad == << "none", -1 >>
AnyLoad == << "any", -1 >>

\* ----------------------------------------------------------- the adapters
\* The path segment each adapter's regular expression looks for.
PathPattern(s) ==
  CASE s = "claude"  -> {"chat"}
    [] s = "chatgpt" -> {"c"}
    [] s = "gemini"  -> {"app", "chat"}
    [] OTHER         -> {"chats"}

\* Where pathname.match finds "/<pattern>/<segment>".
Matches(s, u) == { k \in 1..(Len(u) - 1) : u[k] \in PathPattern(s) }

\* getConversationId at time t: the segment after the leftmost match, or the
\* adapter's fallback.
getConversationId(s, u, t) ==
  IF Matches(s, u) # {}
  THEN << u[(CHOOSE k \in Matches(s, u) : \A j \in Matches(s, u) : k <= j) + 1], 0 >>
  ELSE CASE s = "claude"  -> << "unknown", 0 >>
         [] s = "chatgpt" -> << "chatgpt_", t >>
         [] s = "gemini"  -> << "gemini_", t >>
         [] OTHER         -> << "copilot_", t >>

\* Which rendered elements the adapter's selectors return, with the length test.
Listed(s, t) ==
  /\ t.present
  /\ \/ t.role = "user" /\ Len(trim(t.text)) > 0
     \/ t.role = "assistant" /\ s \in {"claude", "chatgpt"} /\ Len(trim(t.text)) > MinAssistantLength

TurnId(t) == IF t.dataId # NoId THEN t.dataId ELSE generateStableMessageId(t.role, trim(t.text))

\* getMessages writes data-message-id on every element it lists ...
getMessagesDom(s, d) ==
  [i \in Slots |-> IF Listed(s, d[i]) THEN [d[i] EXCEPT !.dataId = TurnId(d[i])] ELSE d[i]]

\* ... and returns the messages sorted by getBoundingClientRect().top.
RECURSIVE MessagesFrom(_, _, _)
MessagesFrom(s, d, i) ==
  IF i > MaxTurns THEN <<>>
  ELSE (IF Listed(s, d[i])
        THEN << [slot |-> i, id |-> TurnId(d[i]), role |-> d[i].role, text |-> trim(d[i].text)] >>
        ELSE <<>>) \o MessagesFrom(s, d, i + 1)
getMessages(s, d) == MessagesFrom(s, d, 1)

\* Where the adapter puts the marker of a turn: Copilot appends to the message
\* element itself, the others insert into the host's action bar.
MarkerLevel(s, t) == IF s = "copilot" THEN 0 ELSE t.layout.lvl

\* Whether the adapter finds its insertion point.
InsertionPointFound(s, t) ==
  CASE s = "claude"  -> t.layout.lvl >= 0 /\ t.layout.lvl < MaxAncestorLevels
    [] s = "chatgpt" -> t.layout.lvl >= 0
    [] s = "gemini"  -> t.layout.lvl = 0
    [] OTHER         -> TRUE

\* message.element.querySelector('.bookmark-button')
ElementHasButton(s, t) == t.markers # <<>> /\ MarkerLevel(s, t) = 0

\* A marker whose state is read from bookmarkedMessageIds.
NewMarkerByFlag(m, bookmark) == [saved |-> m.id \in bookmarkedMessageIds, id |-> m.id]

NewMarker(m, bookmark) == [saved |-> bookmark # NoBookmark, id |-> m.id]

injectBookmarkButton(s, t, m, bookmark) ==
  IF ElementHasButton(s, t) THEN t
  ELSE IF ~InsertionPointFound(s, t) THEN t
  ELSE IF s = "copilot" THEN [t EXCEPT !.markers = Append(@, NewMarker(m, bookmark))]
  ELSE [t EXCEPT !.markers = <<NewMarker(m, bookmark)>> \o @]

\* Whether platform.injectBookmarkButton ends with an exception: it reaches its
\* insertion statement and the container rejects the child.
injectBookmarkButtonThrows(s, t) ==
  ~ElementHasButton(s, t) /\ InsertionPointFound(s, t) /\ t.layout.fails

\* ----------------------------------------------------------- base-content
Abs(x) == IF x < 0 THEN -x ELSE x

bookmarkButtonExists(s, t) ==
  \/ ElementHasButton(s, t)
  \/ \E k \in 0..(MaxAncestorLevels - 1) :
       /\ t.markers # <<>>
       /\ MarkerLevel(s, t) <= k
       /\ Abs(t.layout.dy) < ProximityMargin

getBookmark(map, id) == IF id \in DOMAIN map THEN map[id] ELSE NoBookmark

\* --------------------------------------------------- injectBookmarkButtons
ScanStart(s, d, processed) ==
  [dom |-> getMessagesDom(s, d), processed |-> processed, count |-> 0, added |-> 0,
   requested |-> {}, thrown |-> {}]

\* A scan step that does not look at the role.
ScanMessageAnyRole(s, st, m, map) ==
  LET t == st.dom[m.slot] IN
  IF bookmarkButtonExists(s, t) THEN [st EXCEPT !.processed = @ \cup {m.id}]
  ELSE IF injectBookmarkButtonThrows(s, t)
       THEN [st EXCEPT !.requested = @ \cup {m.slot}, !.thrown = @ \cup {m.slot}]
  ELSE LET t2 == injectBookmarkButton(s, t, m, getBookmark(map, m.id)) IN
       [dom |-> [st.dom EXCEPT ![m.slot] = t2],
        processed |-> st.processed \cup {m.id},
        count |-> st.count + 1,
        added |-> st.added + (IF t2 # t THEN 1 ELSE 0),
        requested |-> st.requested \cup {m.slot},
        thrown |-> st.thrown]

ScanMessage(s, st, m, map) ==
  LET t == st.dom[m.slot] IN
  IF m.role # "user" THEN st
  ELSE IF bookmarkButtonExists(s, t) THEN [st EXCEPT !.processed = @ \cup {m.id}]
  ELSE IF injectBookmarkButtonThrows(s, t)
       THEN [st EXCEPT !.requested = @ \cup {m.slot}, !.thrown = @ \cup {m.slot}]
  ELSE LET t2 == injectBookmarkButton(s, t, m, getBookmark(map, m.id)) IN
       [dom |-> [st.dom EXCEPT ![m.slot] = t2],
        processed |-> st.processed \cup {m.id},
        count |-> st.count + 1,
        added |-> st.added + (IF t2 # t THEN 1 ELSE 0),
        requested |-> st.requested \cup {m.slot},
        thrown |-> st.thrown]

\* A forEach that a throwing insertion ends.
RECURSIVE ScanFromAborting(_, _, _, _, _)
ScanFromAborting(s, st, msgs, k, map) ==
  IF k > Len(msgs) \/ st.thrown # {} THEN st
  ELSE CHOOSE r \in { ScanFromAborting(s, next, msgs, k + 1, map) :
                        next \in { ScanMessage(s, st, msgs[k], map) } } : TRUE

RECURSIVE ScanFrom(_, _, _, _, _)
ScanFrom(s, st, msgs, k, map) ==
  IF k > Len(msgs) THEN st
  ELSE CHOOSE r \in { ScanFrom(s, next, msgs, k + 1, map) :
                        next \in { ScanMessage(s, st, msgs[k], map) } } : TRUE

\* The state after one injectBookmarkButtons(platform) on DOM d; count is its result.
injectBookmarkButtons(s, d, processed, map) ==
  CHOOSE r \in { IF Len(msgs) = 0 THEN st ELSE ScanFrom(s, st, msgs, 1, map) :
                   msgs \in { getMessages(s, d) }, st \in { ScanStart(s, d, processed) } } : TRUE


\* Observation: the turns that got a marker between d and d2.
Inserted(d, d2) == { i \in Slots : d2[i].markers # d[i].markers }

\* The marker the adapter has just inserted into turn t.
NewestMarker(s, t) == IF s = "copilot" THEN t.markers[Len(t.markers)] ELSE t.markers[1]

WithinCap(d) == \A i \in Slots : Len(d[i].markers) <= MaxMarkers

\* ------------------------------------------------------- MutationObserver
PendingLoads == SumOver(inits, DOMAIN inits)

LiveObservers == leaked + (IF observer = "connected" THEN 1 ELSE 0)

\* A quiet period that is the same on every site.
DebounceDelayUniform(s) == QuietPeriod

DebounceDelay(s) == IF s = "gemini" THEN GeminiQuietPeriod ELSE QuietPeriod

\* Observation: how many notifications the timer set now stands for, the ones
\* whose timer it replaces included (counted up to MaxBurst).
BurstLength(it, dts) ==
  IF it = "live" /\ dts # <<>> /\ dts[Len(dts)].n < MaxBurst THEN dts[Len(dts)].n + 1
  ELSE IF it = "live" /\ dts # <<>> THEN MaxBurst
  ELSE 1

\* An observer callback that sets its timer without clearing the pending one.
MutationCallbackQueues(hit, it, dts, s) ==
  IF hit
  THEN [it |-> "live",
        dts |-> Append(dts, [delay |-> DebounceDelay(s), old |-> FALSE,
                             n |-> BurstLength(it, dts)])]
  ELSE [it |-> it, dts |-> dts]

\* An observer callback that sets no timer.
MutationCallbackIdle(hit, it, dts, s) == [it |-> it, dts |-> dts]

\* The observer callback: clearTimeout(injectionTimeout) if it is set, then a new
\* timer.  It runs after a childList mutation under the content root (main; the
\* sidebar is appended to body) when at least one observer is connected; hit
\* says whether that is the case.  The timer injectionTimeout refers to is the
\* newest one.
MutationCallback(hit, it, dts, s) ==
  IF hit
  THEN [it |-> "live",
        dts |-> Append(IF it = "live" THEN Front(dts) ELSE dts,
                       [delay |-> DebounceDelay(s), old |-> FALSE,
                        n |-> BurstLength(it, dts)])]
  ELSE [it |-> it, dts |-> dts]

\* Observation: the timers that are pending when a session is torn down.
MarkOld(timers) == [k \in 1..Len(timers) |-> [timers[k] EXCEPT !.old = TRUE]]

\* ------------------------------------------------------------------- Init
\* The content script has just been evaluated: its module-level state, the
\* interval, the listeners and the first setTimeout(initializeExtension, 1000).
Init ==
  /\ site \in Sites
  /\ url \in Urls(site)
  /\ now = 0
  /\ lastUrl = url
  /\ dom = [i \in Slots |-> NoTurn]
  /\ currentPlatform = FALSE
  /\ observer = "null"
  /\ leaked = 0
  /\ injectionTimeout = "null"
  /\ debounceTimers = <<>>
  /\ processedMessageIds = {}
  /\ bookmarkedMessageIds = {}
  /\ bookmarksMap = <<>>
  /\ initTimers = << SettleDelay >>
  /\ inits = [c \in Conversations |-> 0]
  /\ retryTimers = <<>>
  /\ store = <<>>
  /\ ops = <<>>
  /\ nextId = 1
  /\ currentConversationId = NoConversation
  /\ deletes = <<>>
  /\ unseen = 0
  /\ awaiting = AnyLoad
  /\ last = NoStep

\* --------------------------------------------------------- the host page
\* A rendered element that is replaced or removed is detached: a click handler
\* that still holds it finds no button from it.
DetachOps(i) ==
  [k \in 1..Len(ops) |-> IF ops[k].slot = i THEN [ops[k] EXCEPT !.slot = 0] ELSE ops[k]]

HostMutation(d) ==
  LET mc == MutationCallback(LiveObservers > 0, injectionTimeout, debounceTimers, site) IN
  /\ dom' = d
  /\ injectionTimeout' = mc.it
  /\ debounceTimers' = mc.dts
  /\ last' = NoStep
  /\ UNCHANGED << deletes, currentConversationId, site, url, now, lastUrl, currentPlatform, observer, leaked,
                  processedMessageIds, bookmarkedMessageIds, bookmarksMap, initTimers,
                  inits, retryTimers, store, nextId, unseen, awaiting >>

\* The host renders (or re-renders) the turn at position i: a new element.
RenderTurn(i, role, text, layout) ==
  /\ ops' = DetachOps(i)
  /\ HostMutation([dom EXCEPT ![i] = [present |-> TRUE, role |-> role, text |-> text,
                                      layout |-> layout, dataId |-> NoId, markers |-> <<>>]])

\* The host changes the text the element at position i shows (a response that
\* streams in, a message edited in place): the element, its attributes and
\* the buttons around it stay.
StreamText(i, text) ==
  /\ dom[i].present
  /\ text # dom[i].text
  /\ UNCHANGED ops
  /\ HostMutation([dom EXCEPT ![i].text = text])

\* The host removes the turn at position i.
RemoveTurn(i) ==
  /\ dom[i].present
  /\ ops' = DetachOps(i)
  /\ HostMutation([dom EXCEPT ![i] = NoTurn])

\* The host changes the location (pushState, link, back/forward).
Navigate(u) ==
  /\ u # url
  /\ unseen < MaxUnseen
  /\ url' = u
  /\ unseen' = unseen + 1
  /\ last' = NoStep
  /\ UNCHANGED << deletes, currentConversationId, site, now, dom, lastUrl, currentPlatform, observer, leaked,
                  injectionTimeout, debounceTimers, processedMessageIds,
                  bookmarkedMessageIds, bookmarksMap, initTimers, inits, retryTimers,
                  store, ops, nextId, awaiting >>

\* Time passes: a year or more, longer than any timer or storage call takes.
TimePasses(d) ==
  /\ now + d <= MaxDays
  /\ initTimers = <<>> /\ PendingLoads = 0 /\ retryTimers = <<>> /\ debounceTimers = <<>>
  /\ ops = <<>> /\ deletes = <<>>
  /\ now' = now + d
  /\ last' = NoStep
  /\ UNCHANGED << deletes, currentConversationId, site, url, dom, lastUrl, currentPlatform, observer, leaked,
                  injectionTimeout, debounceTimers, processedMessageIds,
                  bookmarkedMessageIds, bookmarksMap, initTimers, inits, retryTimers,
                  store, ops, nextId, unseen, awaiting >>

\* ------------------------------------------------------- handleUrlChange
\* The Gemini and Copilot scripts disconnect the observer; the Claude and
\* ChatGPT scripts do not.
DisconnectsOnUrlChange(s) == s \in {"gemini", "copilot"}

\* A handleUrlChange that does not record the location it has seen.
handleUrlChangeKeepsLastUrl(s, u, lu, processed, obs, timers) ==
  IF u # lu
  THEN [lastUrl |-> lu,
        processed |-> {},
        observer |-> IF DisconnectsOnUrlChange(s) THEN "null" ELSE obs,
        initTimers |-> Append(timers, SettleDelay)]
  ELSE [lastUrl |-> lu, processed |-> processed, observer |-> obs, initTimers |-> timers]

\* handleUrlChange on location u: the variables it leaves.
handleUrlChange(s, u, lu, processed, obs, timers) ==
  IF u # lu
  THEN [lastUrl |-> u,
        processed |-> {},
        observer |-> IF DisconnectsOnUrlChange(s) THEN "null" ELSE obs,
        initTimers |-> Append(timers, SettleDelay)]
  ELSE [lastUrl |-> lu, processed |-> processed, observer |-> obs, initTimers |-> timers]

\* One location check, by the interval or by the popstate listener.
UrlCheck(kind) ==
  LET r == handleUrlChange(site, url, lastUrl, processedMessageIds, observer, initTimers)
      changed == url # lastUrl
  IN  /\ changed => Len(initTimers) + PendingLoads < MaxPending
      /\ lastUrl' = r.lastUrl
      /\ processedMessageIds' = r.processed
      /\ observer' = r.observer
      /\ initTimers' = r.initTimers
      /\ unseen' = 0
      /\ awaiting' = IF changed THEN getConversationId(site, url, now) ELSE awaiting
      /\ retryTimers' = IF changed THEN MarkOld(retryTimers) ELSE retryTimers
      /\ debounceTimers' = IF changed THEN MarkOld(debounceTimers) ELSE debounceTimers
      /\ last' = IF changed THEN [Step(kind) EXCEPT !.left = Len(initTimers)] ELSE NoStep
      /\ UNCHANGED << deletes, currentConversationId, site, url, now, dom, currentPlatform, leaked, injectionTimeout,
                      bookmarkedMessageIds, bookmarksMap, inits, store, ops, nextId >>

\* setInterval(() => safeExecute(handleUrlChange, ...), 1000)
Poll == UrlCheck("poll")

\* window.addEventListener('popstate', ...)
Popstate == UrlCheck("popstate")

\* window.addEventListener('beforeunload', ...), and the unload is then
\* cancelled: the page and the script stay.
Unload ==
  /\ observer' = IF observer = "null" THEN "null" ELSE "disconnected"
  /\ debounceTimers' = MarkOld(IF injectionTimeout = "live" THEN Front(debounceTimers)
                               ELSE debounceTimers)
  /\ injectionTimeout' = IF injectionTimeout = "live" THEN "stale" ELSE injectionTimeout
  /\ retryTimers' = MarkOld(retryTimers)
  /\ last' = Step("unload")
  /\ UNCHANGED << deletes, currentConversationId, site, url, now, dom, lastUrl, currentPlatform, leaked,
                  processedMessageIds, bookmarkedMessageIds, bookmarksMap, initTimers,
                  inits, store, ops, nextId, unseen, awaiting >>

\* The page unloads and is loaded again: the old script, its timers and its
\* observers are gone, a new script starts on the stored bookmarks.
Reload ==
  /\ lastUrl' = url
  /\ dom' = [i \in Slots |-> NoTurn]
  /\ currentPlatform' = FALSE
  /\ observer' = "null"
  /\ leaked' = 0
  /\ injectionTimeout' = "null"
  /\ debounceTimers' = <<>>
  /\ processedMessageIds' = {}
  /\ bookmarkedMessageIds' = {}
  /\ bookmarksMap' = <<>>
  /\ initTimers' = << SettleDelay >>
  /\ inits' = [c \in Conversations |-> 0]
  /\ retryTimers' = <<>>
  /\ ops' = <<>>
  /\ deletes' = <<>>
  /\ currentConversationId' = NoConversation
  /\ unseen' = 0
  /\ awaiting' = AnyLoad
  /\ last' = NoStep
  /\ UNCHANGED << site, url, now, store, nextId >>

\* ------------------------------------------------------- BookmarkStorage
allowedPlatforms == {"claude", "chatgpt", "gemini", "copilot"}

\* sanitizeText, on lengths: the escaped and trimmed input cut to maxLength.
sanitizeText(input, maxLength) == IF input > maxLength THEN maxLength ELSE input

\* validateBookmark at time t.  The string fields other than the ids are kept
\* by their length (b.len).
validateBookmark(b, t) ==
  /\ b.id # 0 /\ b.platform # "" /\ b.conversationId # << "", 0 >> /\ b.messageId # NoId
  /\ ~(\/ b.len.id > MaxIdLength
       \/ b.len.note > MaxNoteLength
       \/ b.len.messageText > MaxTextLength
       \/ b.len.url > MaxUrlLength)
  /\ b.platform \in allowedPlatforms
  /\ ~(b.timestamp > t \/ b.timestamp < t - OneYear)

\* getAll: the stored array without the records that fail validation.
getAll(st, t) == SelectSeq(st, LAMBDA b : validateBookmark(b, t))

\* getByConversation on the stored array.
getByConversation(st, conv, t) == SelectSeq(getAll(st, t), LAMBDA b : b.conversationId = conv)

\* A duplicate check that compares ids.
existsById(bookmarks, b) == \E j \in 1..Len(bookmarks) : bookmarks[j].id = b.id

\* The duplicate check of save.
exists(bookmarks, b) ==
  \E j \in 1..Len(bookmarks) :
    bookmarks[j].conversationId = b.conversationId /\ bookmarks[j].messageId = b.messageId

\* --------------------------------------------------- initializeExtension
\* The timer set by the script's last statement or by handleUrlChange fires:
\* initializeExtension runs up to its await of loadBookmarksForConversation.
InitFire ==
  /\ initTimers # <<>>
  /\ initTimers' = Tail(initTimers)
  /\ currentPlatform' = TRUE
  /\ inits' = [inits EXCEPT ![getConversationId(site, url, now)] = @ + 1]
  /\ last' = NoStep
  /\ UNCHANGED << deletes, currentConversationId, site, url, now, dom, lastUrl, observer, leaked, injectionTimeout,
                  debounceTimers, processedMessageIds, bookmarkedMessageIds,
                  bookmarksMap, retryTimers, store, ops, nextId, unseen, awaiting >>

\* bookmarks.forEach(b => bookmarksMap.set(b.messageId, b))
RECURSIVE MapOf(_, _)
MapOf(bs, k) ==
  IF k = 0 THEN <<>>
  ELSE LET m == MapOf(bs, k - 1) IN
       [id \in DOMAIN m \cup {bs[k].messageId} |-> IF id = bs[k].messageId THEN bs[k] ELSE m[id]]

\* A retry() that reads its delay after the increment of retryCount.
retryDelayAfterIncrement(n) ==
  IF n >= maxRetries THEN <<>>
  ELSE << [n |-> n + 1,
           delay |-> IF n + 2 <= maxRetries THEN retryIntervals[n + 2] ELSE 0,
           old |-> FALSE] >>

\* retry(): the timer it sets when retryCount is n, none once the budget is spent.
retry(n) ==
  IF n >= maxRetries THEN <<>>
  ELSE << [n |-> n + 1, delay |-> retryIntervals[n + 1], old |-> FALSE] >>

\* A retry chain that goes on after an attempt that found messages.
AfterAttemptAlwaysRetries(total, n) == retry(n)

\* What follows an attemptInjection that found total messages when retryCount
\* is n: retry() if it found none, nothing otherwise.
AfterAttempt(total, n) == IF total > 0 THEN <<>> ELSE retry(n)

\* The load of an initializeExtension call completes (ok) or fails (caught and
\* logged); the rest of initializeExtension runs: the first attemptInjection,
\* retry() when no message was found, setupMutationObserver.
LoadDone(c, ok) ==
  /\ inits[c] > 0
  /\ LET bs == getByConversation(store, c, now)
         map == IF ok THEN MapOf(bs, Len(bs)) ELSE bookmarksMap
     IN  \E sc \in { injectBookmarkButtons(site, dom, processedMessageIds, map) } :
         LET total == Len(getMessages(site, sc.dom))
             mc == MutationCallback(sc.added > 0 /\ LiveObservers > 0, injectionTimeout,
                                    debounceTimers, site)
         IN
         /\ WithinCap(sc.dom)
         /\ total = 0 => Len(retryTimers) < MaxChains
         /\ observer = "connected" => leaked < MaxLeaked
         /\ bookmarksMap' = map
         /\ bookmarkedMessageIds' = IF ok THEN { bs[j].messageId : j \in 1..Len(bs) }
                                    ELSE bookmarkedMessageIds
         /\ dom' = sc.dom
         /\ processedMessageIds' = sc.processed
         /\ retryTimers' = AddTimers(retryTimers, AfterAttempt(total, 0))
         /\ leaked' = IF observer = "connected" THEN leaked + 1 ELSE leaked
         /\ observer' = "connected"
         /\ injectionTimeout' = mc.it
         /\ debounceTimers' = mc.dts
  /\ inits' = [inits EXCEPT ![c] = @ - 1]
  /\ currentConversationId' = c
  /\ awaiting' = IF awaiting \in {AnyLoad, c} THEN NoLoad ELSE awaiting
  /\ last' = [Step("init") EXCEPT !.left = Len(retryTimers), !.loaded = ok,
                                  !.inserted = Inserted(dom, dom'), !.threw = ~ok]
  /\ UNCHANGED << deletes, site, url, now, lastUrl, currentPlatform, initTimers, store, ops,
                  nextId, unseen >>

\* A retry timer fires: attemptInjection, then retry() when still no message.
RetryFire(k) ==
  /\ k \in 1..Len(retryTimers)
  /\ \E sc \in { injectBookmarkButtons(site, dom, processedMessageIds, bookmarksMap) } :
     LET total == Len(getMessages(site, sc.dom))
         mc == MutationCallback(sc.added > 0 /\ LiveObservers > 0, injectionTimeout,
                                debounceTimers, site)
     IN  /\ WithinCap(sc.dom)
         /\ dom' = sc.dom
         /\ processedMessageIds' = sc.processed
         /\ retryTimers' = AddTimers(RemoveAt(retryTimers, k),
                                     AfterAttempt(total, retryTimers[k].n))
         /\ injectionTimeout' = mc.it
         /\ debounceTimers' = mc.dts
  /\ last' = [Step("retry") EXCEPT !.n = retryTimers[k].n, !.old = retryTimers[k].old,
                                   !.left = Len(retryTimers),
                                   !.inserted = Inserted(dom, dom')]
  /\ UNCHANGED << deletes, currentConversationId, site, url, now, lastUrl, currentPlatform, observer, leaked,
                  bookmarkedMessageIds, bookmarksMap, initTimers, inits, store, ops,
                  nextId, unseen, awaiting >>

\* A debounce timer fires: injectBookmarkButtons(platform).
DebounceFire(k) ==
  /\ k \in 1..Len(debounceTimers)
  /\ \E sc \in { injectBookmarkButtons(site, dom, processedMessageIds, bookmarksMap) } :
     LET it == IF k = Len(debounceTimers) /\ injectionTimeout = "live" THEN "stale"
               ELSE injectionTimeout
         mc == MutationCallback(sc.added > 0 /\ LiveObservers > 0, it,
                                RemoveAt(debounceTimers, k), site)
     IN  /\ WithinCap(sc.dom)
         /\ dom' = sc.dom
         /\ processedMessageIds' = sc.processed
         /\ injectionTimeout' = mc.it
         /\ debounceTimers' = mc.dts
  /\ last' = [Step("debounce") EXCEPT !.old = debounceTimers[k].old,
                                      !.n = debounceTimers[k].n,
                                      !.left = Len(debounceTimers),
                                      !.inserted = Inserted(dom, dom')]
  /\ UNCHANGED << deletes, currentConversationId, site, url, now, lastUrl, currentPlatform, observer, leaked,
                  bookmarkedMessageIds, bookmarksMap, initTimers, inits, retryTimers,
                  store, ops, nextId, unseen, awaiting >>

\* ------------------------------------------- callbacks whose listing throws
\* In the three callbacks below platform.getMessages() throws. Inside
\* injectBookmarkButtons the exception is caught by its safeExecute, which
\* returns the fallback 0 and leaves the page as it was.

\* initializeExtension: the load completes or fails, injectBookmarkButtons
\* returns 0, then platform.getMessages() of attemptInjection throws and ends
\* initializeExtension before retry(), setupMutationObserver and injectSidebar;
\* the safeExecuteAsync around initializeExtension catches it.
LoadFault(c, ok) ==
  /\ inits[c] > 0
  /\ LET bs == getByConversation(store, c, now) IN
       /\ bookmarksMap' = IF ok THEN MapOf(bs, Len(bs)) ELSE bookmarksMap
       /\ bookmarkedMessageIds' = IF ok THEN { bs[j].messageId : j \in 1..Len(bs) }
                                  ELSE bookmarkedMessageIds
  /\ inits' = [inits EXCEPT ![c] = @ - 1]
  /\ currentConversationId' = c
  /\ awaiting' = IF awaiting \in {AnyLoad, c} THEN NoLoad ELSE awaiting
  /\ last' = [Step("init") EXCEPT !.left = Len(retryTimers), !.loaded = ok, !.threw = TRUE]
  /\ UNCHANGED << dom, processedMessageIds, retryTimers, leaked, observer, injectionTimeout,
                  debounceTimers, deletes, site, url, now, lastUrl, currentPlatform,
                  initTimers, store, ops, nextId, unseen >>

\* The retry timer's callback is not wrapped: injectBookmarkButtons returns 0,
\* then platform.getMessages() of attemptInjection throws out of the callback,
\* before retry() is reached.
RetryFault(k) ==
  /\ k \in 1..Len(retryTimers)
  /\ retryTimers' = RemoveAt(retryTimers, k)
  /\ last' = [Step("retry") EXCEPT !.n = retryTimers[k].n, !.old = retryTimers[k].old,
                                   !.left = Len(retryTimers),
                                   !.threw = TRUE, !.escaped = TRUE]
  /\ UNCHANGED << dom, processedMessageIds, injectionTimeout, debounceTimers, deletes,
                  currentConversationId, site, url, now, lastUrl, currentPlatform, observer,
                  leaked, bookmarkedMessageIds, bookmarksMap, initTimers, inits, store, ops,
                  nextId, unseen, awaiting >>

\* The debounce timer's callback is injectBookmarkButtons(platform) alone.
DebounceFault(k) ==
  /\ k \in 1..Len(debounceTimers)
  /\ injectionTimeout' = IF k = Len(debounceTimers) /\ injectionTimeout = "live" THEN "stale"
                         ELSE injectionTimeout
  /\ debounceTimers' = RemoveAt(debounceTimers, k)
  /\ last' = [Step("debounce") EXCEPT !.old = debounceTimers[k].old,
                                      !.n = debounceTimers[k].n,
                                      !.left = Len(debounceTimers),
                                      !.threw = TRUE]
  /\ UNCHANGED << dom, processedMessageIds, deletes, currentConversationId, site, url, now,
                  lastUrl, currentPlatform, observer, leaked, bookmarkedMessageIds,
                  bookmarksMap, initTimers, inits, retryTimers, store, ops, nextId, unseen,
                  awaiting >>

\* --------------------------------------------------- handleBookmarkClick
SamePair(a, b) == a.conversationId = b.conversationId /\ a.messageId = b.messageId

\* Observation: the record the store holds for the pair of b (NoBookmark: none).
RecordOf(st, b) ==
  IF \E j \in 1..Len(st) : SamePair(st[j], b)
  THEN st[CHOOSE j \in 1..Len(st) : SamePair(st[j], b) /\ \A i \in 1..(j - 1) : ~SamePair(st[i], b)]
  ELSE NoBookmark

\* The user activates marker k of turn i (only an un-annotated marker has a click
\* listener) and enters a note: the Bookmark is built and BookmarkStorage.save
\* runs up to its await of getAll.
\* save, up to its await of getAll: a record that fails validateBookmark makes
\* save throw before it touches the storage (click: the call came from
\* handleBookmarkClick, whose catch block then alerts).
save(b, slot, click) ==
  IF validateBookmark(b, now)
  THEN /\ ops' = Append(ops, [bm |-> b, stage |-> "read", data |-> <<>>, slot |-> slot,
                              prior |-> IF ops = <<>> THEN RecordOf(store, b) ELSE NoBookmark,
                              raced |-> FALSE, click |-> click])
       /\ last' = NoStep
  ELSE /\ UNCHANGED ops
       /\ last' = [Step("rejected") EXCEPT !.bm = b, !.alert = click]

Click(i, k) ==
  /\ nextId <= MaxClicks
  /\ dom[i].present
  /\ k \in 1..Len(dom[i].markers)
  /\ ~dom[i].markers[k].saved
  /\ LET b == [id |-> nextId, platform |-> site,
               conversationId |-> getConversationId(site, url, now),
               messageId |-> dom[i].markers[k].id,
               timestamp |-> now,
               len |-> [id |-> BookmarkIdLength,
                        note |-> sanitizeText(TypedNoteLength, SanitizedLength),
                        messageText |-> sanitizeText(Len(dom[i].text), SanitizedLength),
                        url |-> HrefLength]]
     IN  save(b, i, TRUE)
  /\ nextId' = nextId + 1
  /\ UNCHANGED << deletes, currentConversationId, site, url, now, dom, lastUrl, currentPlatform, observer, leaked,
                  injectionTimeout, debounceTimers, processedMessageIds,
                  bookmarkedMessageIds, bookmarksMap, initTimers, inits, retryTimers,
                  store, unseen, awaiting >>

\* The button handleBookmarkClick finds from message.element: the first
\* .bookmark-button within ButtonSearchLevels ancestors (0: none, the element
\* is detached or has no button in reach).
FoundButton(op) ==
  IF op.slot # 0 /\ dom[op.slot].markers # <<>>
     /\ MarkerLevel(site, dom[op.slot]) < ButtonSearchLevels
  THEN 1 ELSE 0

\* What handleBookmarkClick does once save has resolved.
AfterSave(op) ==
  LET hit == FoundButton(op) # 0
      mc == MutationCallback(hit /\ LiveObservers > 0, injectionTimeout, debounceTimers, site)
  IN  IF op.click
      THEN /\ bookmarkedMessageIds' = bookmarkedMessageIds \cup {op.bm.messageId}
           /\ dom' = IF hit THEN [dom EXCEPT ![op.slot].markers[1].saved = TRUE] ELSE dom
           /\ injectionTimeout' = mc.it
           /\ debounceTimers' = mc.dts
      ELSE UNCHANGED << dom, bookmarkedMessageIds, injectionTimeout, debounceTimers >>

StoreFrame ==
  UNCHANGED << deletes, currentConversationId, site, url, now, lastUrl, currentPlatform, observer, leaked,
               processedMessageIds, bookmarksMap, initTimers, inits, retryTimers, nextId,
               unseen, awaiting >>

\* save resolves when it stored the record and when it skipped a duplicate, and
\* handleBookmarkClick then dispatches bookmarkAdded; when save rejects, the
\* catch block alerts.
SaveStep(kind, op) ==
  [Step(kind) EXCEPT !.prior = op.prior, !.raced = op.raced, !.bm = op.bm,
                     !.event = IF op.click /\ kind \in {"saved", "skipped"}
                               THEN "bookmarkAdded" ELSE "none",
                     !.alert = (op.click /\ kind = "failed")]

\* save: getAll has resolved.  A duplicate resolves at once without a write;
\* otherwise the array with the new record is handed to chrome.storage.local.set.
SaveRead(j) ==
  /\ j \in 1..Len(ops)
  /\ ops[j].stage = "read"
  /\ LET bookmarks == getAll(store, now)
         raced == \E i \in 1..Len(ops) : i # j /\ SamePair(ops[i].bm, ops[j].bm)
         op == [ops[j] EXCEPT !.raced = raced]
     IN  IF exists(bookmarks, op.bm)
         THEN /\ AfterSave(op)
              /\ ops' = RemoveAt(ops, j)
              /\ last' = SaveStep("skipped", op)
         ELSE /\ ops' = [ops EXCEPT ![j] = [op EXCEPT !.stage = "write",
                                                     !.data = Append(bookmarks, op.bm)]]
              /\ last' = NoStep
              /\ UNCHANGED << dom, bookmarkedMessageIds, injectionTimeout, debounceTimers >>
  /\ UNCHANGED store
  /\ StoreFrame

\* save: chrome.storage.local.set has completed, without or with lastError
\* (then save rejects and handleBookmarkClick alerts).
SaveWrite(j, ok) ==
  /\ j \in 1..Len(ops)
  /\ ops[j].stage = "write"
  /\ IF ok
     THEN /\ store' = ops[j].data
          /\ AfterSave(ops[j])
          /\ last' = SaveStep("saved", ops[j])
     ELSE /\ last' = SaveStep("failed", ops[j])
          /\ UNCHANGED << store, dom, bookmarkedMessageIds, injectionTimeout, debounceTimers >>
  /\ ops' = RemoveAt(ops, j)
  /\ StoreFrame

\* The records a caller of BookmarkStorage.save may pass: one that sits on
\* every bound, and the same record with one field beyond its bound, missing
\* or outside the allowed values.
SaveInputs(id, t) ==
  LET onBounds(m) == [id |-> id, platform |-> site, conversationId |-> << "a", 0 >>,
                      messageId |-> m, timestamp |-> t,
                      len |-> [id |-> MaxIdLength, note |-> MaxNoteLength,
                               messageText |-> MaxTextLength, url |-> MaxUrlLength]]
      around(b) == {b,
                    [b EXCEPT !.len.id = MaxIdLength + 1],
                    [b EXCEPT !.len.note = TypedNoteLength],
                    [b EXCEPT !.len.messageText = MaxTextLength + 1],
                    [b EXCEPT !.len.url = MaxUrlLength + 1],
                    [b EXCEPT !.platform = "perplexity"],
                    [b EXCEPT !.platform = ""],
                    [b EXCEPT !.id = 0],
                    [b EXCEPT !.messageId = NoId],
                    [b EXCEPT !.conversationId = << "", 0 >>],
                    [b EXCEPT !.timestamp = t + 1],
                    [b EXCEPT !.timestamp = t - OneYear],
                    [b EXCEPT !.timestamp = t - OneYear - 1]}
  IN  UNION { around(onBounds(generateStableMessageId("user", text))) : text \in Texts }

\* BookmarkStorage.save called with a record of the caller's making.
SaveCall(b) ==
  /\ nextId <= MaxClicks
  /\ b \in SaveInputs(nextId, now)
  /\ save(b, 0, FALSE)
  /\ nextId' = nextId + 1
  /\ UNCHANGED << deletes, currentConversationId, site, url, now, dom, lastUrl, currentPlatform, observer, leaked,
                  injectionTimeout, debounceTimers, processedMessageIds,
                  bookmarkedMessageIds, bookmarksMap, initTimers, inits, retryTimers,
                  store, unseen, awaiting >>

\* ---------------------------------------------------------------- Sidebar
\* The bookmarks the mounted Sidebar lists: loadBookmarks reads
\* getByConversation(conversationId) at mount and after every bookmarkAdded
\* and bookmarkDeleted event.
Listing ==
  IF currentConversationId = NoConversation THEN <<>>
  ELSE getByConversation(store, currentConversationId, now)

\* bookmarks.filter(b => b.id !== bookmarkId)
filtered(bookmarks, bookmarkId) == SelectSeq(bookmarks, LAMBDA b : b.id # bookmarkId)

\* Observation: the stored record with the id (NoBookmark: none).
RecordById(st, bookmarkId) ==
  IF \E j \in 1..Len(st) : st[j].id = bookmarkId
  THEN st[CHOOSE j \in 1..Len(st) : st[j].id = bookmarkId /\ \A i \in 1..(j - 1) : st[i].id # bookmarkId]
  ELSE NoBookmark

DeleteFrame ==
  UNCHANGED << site, url, now, dom, lastUrl, currentPlatform, observer, leaked,
               injectionTimeout, debounceTimers, processedMessageIds, bookmarkedMessageIds,
               bookmarksMap, initTimers, inits, retryTimers, ops, nextId,
               currentConversationId, unseen, awaiting >>

\* The user confirms the deletion of a listed bookmark: handleDelete runs
\* BookmarkStorage.delete up to its await of getAll.
DeleteClick(bookmarkId) ==
  /\ Len(deletes) < MaxDeletes
  /\ \E j \in 1..Len(Listing) : Listing[j].id = bookmarkId
  /\ deletes' = Append(deletes, [id |-> bookmarkId, stage |-> "read", data |-> <<>>])
  /\ last' = NoStep
  /\ UNCHANGED store
  /\ DeleteFrame

\* delete: getAll has resolved; the filtered array is handed to
\* chrome.storage.local.set.
DeleteRead(j) ==
  /\ j \in 1..Len(deletes)
  /\ deletes[j].stage = "read"
  /\ deletes' = [deletes EXCEPT ![j] = [@ EXCEPT !.stage = "write",
                                               !.data = filtered(getAll(store, now), deletes[j].id)]]
  /\ last' = NoStep
  /\ UNCHANGED store
  /\ DeleteFrame

\* delete: chrome.storage.local.set has completed.  Without lastError
\* handleDelete dispatches bookmarkDeleted (only the Sidebar listens, and
\* reloads its list); with lastError delete rejects and handleDelete ends.
DeleteWrite(j, ok) ==
  /\ j \in 1..Len(deletes)
  /\ deletes[j].stage = "write"
  /\ IF ok
     THEN /\ store' = deletes[j].data
          /\ last' = [Step("deleted") EXCEPT !.bm = RecordById(store, deletes[j].id),
                                             !.event = "bookmarkDeleted"]
     ELSE /\ last' = Step("undeleted")
          /\ UNCHANGED store
  /\ deletes' = RemoveAt(deletes, j)
  /\ DeleteFrame

\* ------------------------------------------------- handleSidebarBookmarkClick
\* document.querySelector('[data-message-id="..."]'): the position of the first
\* element that carries the attribute with this value, 0 when there is none.
scrollToMessage(d, messageId) ==
  IF \E i \in Slots : d[i].present /\ d[i].dataId = messageId
  THEN CHOOSE i \in Slots : /\ d[i].present /\ d[i].dataId = messageId
                            /\ \A j \in 1..(i - 1) : ~(d[j].present /\ d[j].dataId = messageId)
  ELSE 0

\* The user clicks a bookmark of the Sidebar's list: scrollToMessage scrolls to
\* the element and highlights it (target), or alerts that it was not found.
SidebarClick(j) ==
  /\ currentPlatform
  /\ j \in 1..Len(Listing)
  /\ last' = [Step("scroll") EXCEPT !.bm = Listing[j],
                                    !.target = scrollToMessage(dom, Listing[j].messageId),
                                    !.alert = (scrollToMessage(dom, Listing[j].messageId) = 0)]
  /\ UNCHANGED << store, deletes >>
  /\ DeleteFrame

\* ------------------------------------------------------------------- Next
Next ==
  \/ \E i \in Slots, role \in Roles, text \in Texts, layout \in Layouts :
       RenderTurn(i, role, text, layout)
  \/ \E i \in Slots, text \in Texts : StreamText(i, text)
  \/ \E i \in Slots : RemoveTurn(i)
  \/ \E u \in Urls(site) : Navigate(u)
  \/ \E d \in Leaps : TimePasses(d)
  \/ Poll
  \/ Popstate
  \/ Unload
  \/ Reload
  \/ InitFire
  \/ \E c \in Conversations, ok \in BOOLEAN : LoadDone(c, ok)
  \/ \E k \in 1..MaxChains : RetryFire(k)
  \/ \E k \in 1..MaxMarkers : DebounceFire(k)
  \/ \E c \in Conversations, ok \in BOOLEAN : LoadFault(c, ok)
  \/ \E k \in 1..MaxChains : RetryFault(k)
  \/ \E k \in 1..MaxMarkers : DebounceFault(k)
  \/ \E i \in Slots, k \in 1..MaxMarkers : Click(i, k)
  \/ \E b \in SaveInputs(nextId, now) : SaveCall(b)
  \/ \E j \in 1..MaxClicks : SaveRead(j)
  \/ \E j \in 1..MaxClicks, ok \in BOOLEAN : SaveWrite(j, ok)
  \/ \E j \in 1..MaxClicks : SidebarClick(j)
  \/ \E b \in 1..MaxClicks : DeleteClick(b)
  \/ \E j \in 1..MaxDeletes : DeleteRead(j)
  \/ \E j \in 1..MaxDeletes, ok \in BOOLEAN : DeleteWrite(j, ok)

Spec == Init /\ [][Next]_vars

\* Scanning: the host renders turns of every role, text and layout; the script
\* initializes and rescans on mutations.
NextScan ==
  \/ \E i \in Slots, role \in Roles, text \in Texts, layout \in Layouts :
       RenderTurn(i, role, text, layout)
  \/ InitFire
  \/ \E c \in Conversations, ok \in BOOLEAN : LoadDone(c, ok)
  \/ \E k \in 1..MaxMarkers : DebounceFire(k)

SpecScan == Init /\ [][NextScan]_vars

\* Saving: plain user turns, marker clicks, the two steps of each save, the
\* clock, page reloads.
NextStore ==
  \/ \E i \in Slots : RenderTurn(i, "user", PlainText, PlainLayout)
  \/ \E d \in Leaps : TimePasses(d)
  \/ Reload
  \/ InitFire
  \/ \E c \in Conversations, ok \in BOOLEAN : LoadDone(c, ok)
  \/ \E k \in 1..MaxMarkers : DebounceFire(k)
  \/ \E i \in Slots, k \in 1..MaxMarkers : Click(i, k)
  \/ \E j \in 1..MaxClicks : SaveRead(j)
  \/ \E j \in 1..MaxClicks, ok \in BOOLEAN : SaveWrite(j, ok)

SpecStore == Init /\ [][NextStore]_vars

\* Sessions on a page that shows a turn by the time an initialization completes
\* (no retry chain starts): one plain user turn that comes and goes, navigation,
\* unload, the settle-delay and debounce timers.
NextSession ==
  \/ \E i \in Slots : RenderTurn(i, "user", PlainText, PlainLayout)
  \/ \E i \in Slots : RemoveTurn(i)
  \/ \E u \in Urls(site) : Navigate(u)
  \/ Poll
  \/ Popstate
  \/ Unload
  \/ InitFire
  \/ \E c \in Conversations, ok \in BOOLEAN : LoadDone(c, ok) /\ retryTimers' = <<>>
  \/ \E k \in 1..MaxMarkers : DebounceFire(k)

SpecSession == Init /\ [][NextSession]_vars

\* Bootstrapping a page on which no turn ever appears.
NextBoot ==
  \/ \E u \in Urls(site) : Navigate(u)
  \/ Poll
  \/ Popstate
  \/ InitFire
  \/ \E c \in Conversations, ok \in BOOLEAN : LoadDone(c, ok)
  \/ \E k \in 1..MaxChains : RetryFire(k)

SpecBoot == Init /\ [][NextBoot]_vars

\* Bootstrapping a page on which turns appear and disappear while the retry
\* chain runs.
NextChain ==
  \/ \E i \in Slots, role \in Roles, text \in Texts : RenderTurn(i, role, text, PlainLayout)
  \/ \E i \in Slots : RemoveTurn(i)
  \/ InitFire
  \/ \E c \in Conversations, ok \in BOOLEAN : LoadDone(c, ok)
  \/ \E k \in 1..MaxChains : RetryFire(k)
  \/ \E k \in 1..MaxMarkers : DebounceFire(k)

SpecChain == Init /\ [][NextChain]_vars

\* The index and the store: plain user turns, marker clicks and saves, Sidebar
\* deletions, page reloads.
NextIndex ==
  \/ \E i \in Slots : RenderTurn(i, "user", PlainText, PlainLayout)
  \/ Reload
  \/ InitFire
  \/ \E c \in Conversations, ok \in BOOLEAN : LoadDone(c, ok)
  \/ \E k \in 1..MaxMarkers : DebounceFire(k)
  \/ \E i \in Slots, k \in 1..MaxMarkers : Click(i, k)
  \/ \E j \in 1..MaxClicks : SaveRead(j)
  \/ \E j \in 1..MaxClicks, ok \in BOOLEAN : SaveWrite(j, ok)
  \/ \E b \in 1..MaxClicks : DeleteClick(b)
  \/ \E j \in 1..MaxDeletes : DeleteRead(j)
  \/ \E j \in 1..MaxDeletes, ok \in BOOLEAN : DeleteWrite(j, ok)

SpecIndex == Init /\ [][NextIndex]_vars

\* The Store under direct calls: the script boots on a page without turns,
\* save is called with records of every shape, the clock advances.
NextSave ==
  \/ InitFire
  \/ \E c \in Conversations, ok \in BOOLEAN : LoadDone(c, ok)
  \/ \E k \in 1..MaxChains : RetryFire(k)
  \/ \E b \in SaveInputs(nextId, now) : SaveCall(b)
  \/ \E j \in 1..MaxClicks : SaveRead(j)
  \/ \E j \in 1..MaxClicks, ok \in BOOLEAN : SaveWrite(j, ok)
  \/ \E d \in Leaps : TimePasses(d)

SpecSave == Init /\ [][NextSave]_vars

\* Loading: navigation between the conversation pages, the location check,
\* initializations whose load completes or fails; while no initialization and
\* no save is under way, the host renders one plain user turn and the user
\* activates its marker.
NextLoad ==
  \/ /\ initTimers = <<>> /\ PendingLoads = 0 /\ ops = <<>>
     /\ RenderTurn(1, "user", PlainText, PlainLayout)
  \/ ops = <<>> /\ \E u \in Urls(site) : Navigate(u)
  \/ Poll
  \/ InitFire
  \/ \E c \in Conversations, ok \in BOOLEAN : LoadDone(c, ok)
  \/ /\ initTimers = <<>> /\ PendingLoads = 0 /\ ops = <<>>
     /\ Click(1, 1)
  \/ \E j \in 1..MaxClicks : SaveRead(j)
  \/ \E j \in 1..MaxClicks, ok \in BOOLEAN : SaveWrite(j, ok)

SpecLoad == Init /\ [][NextLoad]_vars

\* Changing texts: the host renders turns of every role and text and changes
\* the text of rendered turns; the script initializes and rescans.
NextText ==
  \/ \E i \in Slots, role \in Roles, text \in Texts : RenderTurn(i, role, text, PlainLayout)
  \/ \E i \in Slots, text \in Texts : StreamText(i, text)
  \/ InitFire
  \/ \E c \in Conversations, ok \in BOOLEAN : LoadDone(c, ok)
  \/ \E k \in 1..MaxMarkers : DebounceFire(k)

SpecText == Init /\ [][NextText]_vars

\* Fingerprints: the host renders turns with the fingerprint texts; the script
\* initializes and rescans.
NextPrint ==
  \/ \E i \in Slots, role \in Roles, text \in FingerprintTexts :
       RenderTurn(i, role, text, PlainLayout)
  \/ InitFire
  \/ \E c \in Conversations, ok \in BOOLEAN : LoadDone(c, ok)
  \/ \E k \in 1..MaxMarkers : DebounceFire(k)

SpecPrint == Init /\ [][NextPrint]_vars

\* Scans of turns whose container may reject the marker with an exception.
FaultLayouts == { PlainLayout, FaultyLayout, NoLayout }

NextFault ==
  \/ \E i \in Slots, text \in Texts, layout \in FaultLayouts :
       RenderTurn(i, "user", text, layout)
  \/ InitFire
  \/ \E c \in Conversations, ok \in BOOLEAN : LoadDone(c, ok)
  \/ \E k \in 1..MaxChains : RetryFire(k)
  \/ \E k \in 1..MaxMarkers : DebounceFire(k)

SpecFault == Init /\ [][NextFault]_vars

\* The bootstrap, retry and debounce callbacks, with and without a listing
\* that throws.
NextGuard ==
  \/ \E i \in Slots, layout \in {PlainLayout, NoLayout} :
       RenderTurn(i, "user", PlainText, layout)
  \/ InitFire
  \/ \E c \in Conversations, ok \in BOOLEAN : LoadDone(c, ok)
  \/ \E k \in 1..MaxChains : RetryFire(k)
  \/ \E k \in 1..MaxMarkers : DebounceFire(k)
  \/ \E c \in Conversations, ok \in BOOLEAN : LoadFault(c, ok)
  \/ \E k \in 1..MaxChains : RetryFault(k)
  \/ \E k \in 1..MaxMarkers : DebounceFault(k)

SpecGuard == Init /\ [][NextGuard]_vars

\* Watch-only mode: the page is empty while the bootstrap and its ten retries
\* run, and the host renders its turns, each once, only when the retry budget
\* is spent.  Timers that are due fire, and a pending load completes.
\* The layouts on which a marker, once inserted, is found again by the next
\* pass, so that the number of markers of a turn does not grow.
WatchLayouts == { l \in Layouts : l.dy < ProximityMargin }

BootstrapOver == initTimers = <<>> /\ PendingLoads = 0 /\ retryTimers = <<>>

NextWatch ==
  \/ \E i \in Slots, role \in Roles, layout \in WatchLayouts :
       BootstrapOver /\ ~dom[i].present /\ RenderTurn(i, role, PlainText, layout)
  \/ InitFire
  \/ \E c \in Conversations, ok \in BOOLEAN : LoadDone(c, ok)
  \/ \E k \in 1..MaxChains : RetryFire(k)
  \/ \E k \in 1..MaxMarkers : DebounceFire(k)

TimerStep ==
  \/ InitFire
  \/ \E c \in Conversations, ok \in BOOLEAN : LoadDone(c, ok)
  \/ \E k \in 1..MaxChains : RetryFire(k)
  \/ \E k \in 1..MaxMarkers : DebounceFire(k)

TimersFire == WF_vars(TimerStep)

SpecWatch == Init /\ [][NextWatch]_vars /\ TimersFire

\* Bookmarks are saved and the Sidebar's entries are clicked while the host
\* renders, re-renders and removes turns.
NextScroll ==
  \/ \E i \in Slots : RenderTurn(i, "user", PlainText, PlainLayout)
  \/ \E i \in Slots : RemoveTurn(i)
  \/ InitFire
  \/ \E c \in Conversations, ok \in BOOLEAN : LoadDone(c, ok)
  \/ \E k \in 1..MaxMarkers : DebounceFire(k)
  \/ \E i \in Slots, k \in 1..MaxMarkers : Click(i, k)
  \/ \E j \in 1..MaxClicks : SaveRead(j)
  \/ \E j \in 1..MaxClicks, ok \in BOOLEAN : SaveWrite(j, ok)
  \/ \E j \in 1..MaxClicks : SidebarClick(j)

SpecScroll == Init /\ [][NextScroll]_vars

\* Coming back: a bookmark is saved in a session whose bootstrap is over, the
\* page is reloaded or the user goes to another conversation and back; the host
\* takes the user turn off the page before the location changes and renders it
\* afterwards; every storage call completes.
NextReturn ==
  \/ ops = <<>> /\ ~dom[1].present /\ RenderTurn(1, "user", PlainText, PlainLayout)
  \/ ops = <<>> /\ RemoveTurn(1)
  \/ /\ ops = <<>> /\ unseen = 0 /\ ~dom[1].present
     /\ \E u \in Urls(site) : Navigate(u)
  \/ ops = <<>> /\ initTimers = <<>> /\ PendingLoads = 0 /\ Poll
  \/ ops = <<>> /\ Reload
  \/ InitFire
  \/ \E c \in Conversations : LoadDone(c, TRUE)
  \/ \E k \in 1..MaxMarkers : DebounceFire(k)
  \/ /\ BootstrapOver /\ url = lastUrl /\ ops = <<>>
     /\ \E k \in 1..MaxMarkers : Click(1, k)
  \/ \E j \in 1..MaxClicks : SaveRead(j)
  \/ \E j \in 1..MaxClicks : SaveWrite(j, TRUE)

SpecReturn == Init /\ [][NextReturn]_vars

\* Overlapping storage calls: user turns of two texts, marker clicks and Sidebar
\* deletions whose reads and writes interleave; every storage call completes.
NextRace ==
  \/ \E i \in Slots, text \in Texts : ~dom[i].present /\ RenderTurn(i, "user", text, PlainLayout)
  \/ InitFire
  \/ \E c \in Conversations : LoadDone(c, TRUE)
  \/ \E k \in 1..MaxMarkers : DebounceFire(k)
  \/ \E i \in Slots, k \in 1..MaxMarkers : Click(i, k)
  \/ \E j \in 1..MaxClicks : SaveRead(j)
  \/ \E j \in 1..MaxClicks : SaveWrite(j, TRUE)
  \/ \E b \in 1..MaxClicks : DeleteClick(b)
  \/ \E j \in 1..MaxDeletes : DeleteRead(j)
  \/ \E j \in 1..MaxDeletes : DeleteWrite(j, TRUE)

SpecRace == Init /\ [][NextRace]_vars

\* A page that stops changing: the host renders each user turn once, in any
\* layout, and leaves the page alone once every turn is rendered; the timers of
\* the script fire.
NextQuiet ==
  \/ \E i \in Slots, layout \in Layouts :
       ~dom[i].present /\ RenderTurn(i, "user", PlainText, layout)
  \/ InitFire
  \/ \E c \in Conversations, ok \in BOOLEAN : LoadDone(c, ok)
  \/ \E k \in 1..MaxChains : RetryFire(k)
  \/ \E k \in 1..MaxMarkers : DebounceFire(k)

SpecQuiet == Init /\ [][NextQuiet]_vars /\ TimersFire

\* Ageing records: storage calls that never overlap and always complete, on a
\* Store whose records grow old while the clock advances.
NextAge ==
  \/ \E i \in Slots, text \in Texts : ~dom[i].present /\ RenderTurn(i, "user", text, PlainLayout)
  \/ \E d \in Leaps : TimePasses(d)
  \/ InitFire
  \/ \E c \in Conversations : LoadDone(c, TRUE)
  \/ \E k \in 1..MaxMarkers : DebounceFire(k)
  \/ /\ ops = <<>> /\ deletes = <<>>
     /\ \E i \in Slots, k \in 1..MaxMarkers : Click(i, k)
  \/ \E j \in 1..MaxClicks : SaveRead(j)
  \/ \E j \in 1..MaxClicks : SaveWrite(j, TRUE)
  \/ /\ ops = <<>> /\ deletes = <<>>
     /\ \E b \in 1..MaxClicks : DeleteClick(b)
  \/ \E j \in 1..MaxDeletes : DeleteRead(j)
  \/ \E j \in 1..MaxDeletes : DeleteWrite(j, TRUE)

SpecAge == Init /\ [][NextAge]_vars

\* A page without conversation segment ("/": a chat that has not been given an
\* id by the host yet).  The ids getConversationId falls back to on it enter
\* the table of pending initializations.
HomePath == <<>>
SessionIds ==
  Conversations \cup { getConversationId(s, HomePath, t) : s \in Sites, t \in 0..MaxStamp }

InitHome ==
  /\ site \in Sites
  /\ url = HomePath
  /\ now = 0
  /\ lastUrl = url
  /\ dom = [i \in Slots |-> NoTurn]
  /\ currentPlatform = FALSE
  /\ observer = "null"
  /\ leaked = 0
  /\ injectionTimeout = "null"
  /\ debounceTimers = <<>>
  /\ processedMessageIds = {}
  /\ bookmarkedMessageIds = {}
  /\ bookmarksMap = <<>>
  /\ initTimers = << SettleDelay >>
  /\ inits = [c \in SessionIds |-> 0]
  /\ retryTimers = <<>>
  /\ store = <<>>
  /\ ops = <<>>
  /\ nextId = 1
  /\ currentConversationId = NoConversation
  /\ deletes = <<>>
  /\ unseen = 0
  /\ awaiting = AnyLoad
  /\ last = NoStep

\* One session on that page: the script boots, the host renders user turns, the
\* user bookmarks them, now or a day later.
NextHome ==
  \/ \E i \in Slots : ~dom[i].present /\ RenderTurn(i, "user", PlainText, PlainLayout)
  \/ now < MaxStamp /\ TimePasses(1)
  \/ InitFire
  \/ \E c \in SessionIds : LoadDone(c, TRUE)
  \/ \E k \in 1..MaxMarkers : DebounceFire(k)
  \/ \E i \in Slots, k \in 1..MaxMarkers : Click(i, k)
  \/ \E j \in 1..MaxClicks : SaveRead(j)
  \/ \E j \in 1..MaxClicks : SaveWrite(j, TRUE)

SpecHome == InitHome /\ [][NextHome]_vars

\* Hashing: the host renders turns of the hash texts, the script initializes
\* and rescans.
NextHash ==
  \/ \E i \in Slots, role \in Roles, text \in HashTexts :
       RenderTurn(i, role, text, PlainLayout)
  \/ InitFire
  \/ \E c \in Conversations, ok \in BOOLEAN : LoadDone(c, ok)
  \/ \E k \in 1..MaxMarkers : DebounceFire(k)

SpecHash == Init /\ [][NextHash]_vars

\* The rolling hash in the words of the specification: h := 31*h + charCode,
\* kept to 32 bits after every character ...
RollingStep(h, c) ==
  LET lo == 31 * h[2] + c
      hi == 31 * h[1] + (lo \div 65536)
  IN  << hi % 65536, lo % 65536 >>

RECURSIVE RollingRange(_, _, _, _)
RollingRange(str, lo, hi, h) ==
  IF lo > hi THEN h
  ELSE IF lo = hi THEN RollingStep(h, str[lo])
  ELSE LET mid == (lo + hi) \div 2
       IN  CHOOSE r \in { RollingRange(str, mid + 1, hi, left) :
                            left \in { RollingRange(str, lo, mid, h) } } : TRUE

\* ... and |h|: a value with the sign bit set stands for h - 2^32.
Magnitude(h) ==
  IF h[1] < 32768 THEN h
  ELSE IF h[2] = 0 THEN << 65536 - h[1], 0 >>
  ELSE << 65535 - h[1], 65536 - h[2] >>

\* The number a sequence of base-36 digits denotes, as limbs.
RECURSIVE FromBase36(_)
FromBase36(digits) ==
  IF digits = <<>> THEN << 0, 0 >>
  ELSE LET v == FromBase36(Front(digits))
           lo == v[2] * 36 + digits[Len(digits)]
       IN  << v[1] * 36 + (lo \div 65536), lo % 65536 >>

\* ----------------------------------------------------------------- claims

\* C1: idempotent injection.  In the state a reconcile pass leaves, a second
\* injectBookmarkButtons on the unchanged DOM returns 0 and requests no marker
\* insertion, for every site and every layout of the turns.
C1_SecondPassIdle ==
  last.kind \in Scans =>
    LET again == injectBookmarkButtons(site, dom, processedMessageIds, bookmarksMap)
    IN  again.count = 0 /\ again.requested = {}

\* C2: in every reachable state each rendered turn carries at most one marker.
C2_AtMostOneMarker == \A i \in Slots : Len(dom[i].markers) <= 1

\* C3: under every interleaving of the reads and writes of save calls, the store
\* never holds two records with the same (conversationId, messageId).
C3_UniquePairs ==
  \A i, j \in 1..Len(store) : SamePair(store[i], store[j]) => i = j

\* C3, its case: a save that read the store while another save of the same pair
\* was in flight has written, and every save has completed.
C3_RacedSavesDone == last.kind = "saved" /\ last.raced /\ ops = <<>>

\* C4: a save that started after an earlier save of the same pair had completed
\* (its record in the store, no save in flight) leaves exactly one record for
\* the pair in the store, and it is the earlier one.
C4_FirstRecordKept ==
  (last.kind \in {"saved", "skipped"} /\ last.prior # NoBookmark) =>
    /\ Cardinality({ j \in 1..Len(store) : SamePair(store[j], last.prior) }) = 1
    /\ \A j \in 1..Len(store) : SamePair(store[j], last.prior) => store[j] = last.prior

\* C5: once a navigation change is detected (and at startup), no reconcile pass
\* runs until a load for the new conversation (at startup: the first load) has
\* completed or failed.
C5_NoPassBeforeLoad == last.kind \in Scans => awaiting = NoLoad

\* C6: no debounce timer and no retry timer that was set before a teardown (a
\* detected navigation change, an unload) runs a reconcile pass after it.
C6_NoTimerSurvivesTeardown == last.kind \in {"retry", "debounce"} => ~last.old

\* C7: at any time at most one mutation observer created by the script is
\* connected, on every site.
C7_OneObserver == LiveObservers <= 1

\* C8 as stated: every change of location gets its bootstrap, so a location check
\* schedules one initializeExtension for each change since the previous check.
C8_EveryChangeBootstraps ==
  LET r == handleUrlChange(site, url, lastUrl, processedMessageIds, observer, initTimers)
  IN  Len(r.initTimers) = Len(initTimers) + unseen

\* C8, amended: a location check (poll or popstate) that finds the location
\* different from the last one it has seen schedules exactly one
\* initializeExtension, 1000 ms later, and a check of the same location by the
\* other mechanism then schedules none; a check that finds the location it has
\* seen schedules none.
C8_SeenChangeBootstrapsOnce ==
  LET first == handleUrlChange(site, url, lastUrl, processedMessageIds, observer, initTimers)
      second == handleUrlChange(site, url, first.lastUrl, first.processed, first.observer,
                                first.initTimers)
  IN  /\ url # lastUrl => /\ first.initTimers = Append(initTimers, 1000)
                          /\ second.initTimers = first.initTimers
      /\ url = lastUrl => first.initTimers = initTimers
      /\ last.kind \in Checks => /\ lastUrl = url
                                 /\ Len(initTimers) = last.left + 1
                                 /\ initTimers[Len(initTimers)] = 1000

\* C8, its case: the poll has just found a changed location while an earlier
\* initialization was still pending.
C8_PollSawChange == last.kind = "poll" /\ last.left = 1 /\ Len(initTimers) = 2

\* C9: at most one bootstrap retry chain has a pending retry timer.
C9_OneRetryChain == Len(retryTimers) <= 1

\* C10: with no turn on the page, the initial attempt of a bootstrap sets the
\* first retry timer, the k-th retry timer has the k-th delay of the backoff
\* sequence, each of the first nine retries sets the next one and the tenth
\* sets none.
C10_BackoffTerminates ==
  /\ \A k \in 1..Len(retryTimers) :
       /\ retryTimers[k].n \in 1..10
       /\ retryTimers[k].delay =
            <<500, 1000, 1000, 2000, 2000, 3000, 3000, 5000, 5000, 5000>>[retryTimers[k].n]
  /\ (last.kind = "init" /\ getMessages(site, dom) = <<>>) =>
       /\ Len(retryTimers) = last.left + 1
       /\ \E k \in 1..Len(retryTimers) : retryTimers[k].n = 1
  /\ (last.kind = "retry" /\ getMessages(site, dom) = <<>>) =>
       IF last.n < 10
       THEN /\ Len(retryTimers) = last.left
            /\ \E k \in 1..Len(retryTimers) : retryTimers[k].n = last.n + 1
       ELSE Len(retryTimers) = last.left - 1

\* C10, its case: the tenth retry of a chain has run and no timer is left.
C10_TenthRetryRan == last.kind = "retry" /\ last.n = 10 /\ retryTimers = <<>>

\* C11: a retry chain stops at the first attempt that finds a turn: an attempt
\* (the initial one or a retry) that found at least one message sets no retry
\* timer, so a retry timer is set only after an attempt that found none.
C11_FoundIsTerminal ==
  /\ (last.kind = "init" /\ getMessages(site, dom) # <<>>) => Len(retryTimers) = last.left
  /\ (last.kind = "retry" /\ getMessages(site, dom) # <<>>) =>
       Len(retryTimers) = last.left - 1
  /\ (last.kind = "init" /\ Len(retryTimers) > last.left) => getMessages(site, dom) = <<>>
  /\ (last.kind = "retry" /\ Len(retryTimers) >= last.left) => getMessages(site, dom) = <<>>

\* C11, its case: a retry after at least one fruitless retry has found a turn
\* and no retry timer is pending.
C11_RetryFoundTurn ==
  last.kind = "retry" /\ last.n > 1 /\ getMessages(site, dom) # <<>> /\ retryTimers = <<>>

\* C12: debounce coalescing.  A burst of mutation notifications, each arriving
\* while the timer of the previous one is pending, leaves one timer, set by the
\* last notification with the quiet period of the site (500 ms, Gemini 800 ms);
\* when it fires it is the only debounce timer, it makes the one reconcile call
\* of the burst, and a timer pending afterwards was set by a notification that
\* came with or after that call.
C12_BurstRunsOnce ==
  /\ \A k \in 1..Len(debounceTimers) :
       debounceTimers[k].delay = (IF site = "gemini" THEN 800 ELSE 500)
  /\ last.kind = "debounce" =>
       /\ last.left = 1
       /\ \A k \in 1..Len(debounceTimers) : debounceTimers[k].n = 1

\* C12, its case: the timer of a burst of three or more notifications has fired
\* on Gemini.
C12_BurstFired == last.kind = "debounce" /\ last.n >= 3 /\ site = "gemini"

\* C13: at every moment at most one debounce timer is pending in a content
\* script; a notification that arrives while one is pending replaces it.
C13_OneDebounceTimer == Len(debounceTimers) <= 1

\* C13, its case: the pending timer has replaced the timer of an earlier
\* notification while two observers were connected.
C13_TimerReplaced ==
  Len(debounceTimers) = 1 /\ debounceTimers[1].n >= 2 /\ LiveObservers = 2

\* C14: after a save of a new Bookmark for a message has succeeded, getBookmark
\* of that message returns the Bookmark without a reload from the store.
C14_IndexHasSavedBookmark ==
  last.kind = "saved" => getBookmark(bookmarksMap, last.bm.messageId) = last.bm

\* C15: after the bookmarkDeleted event for a bookmark of a message,
\* getBookmark of that message returns null.
C15_IndexDropsDeleted ==
  (last.kind = "deleted" /\ last.bm # NoBookmark) =>
    getBookmark(bookmarksMap, last.bm.messageId) = NoBookmark

\* C16: bookmarkAdded is dispatched only after a save that stored the Bookmark:
\* the Bookmark the event carries is in the store at that moment, and no event
\* follows a save that was rejected or skipped as a duplicate.
C16_EventMeansStored ==
  last.event = "bookmarkAdded" =>
    /\ last.kind = "saved"
    /\ \E j \in 1..Len(store) : store[j] = last.bm

\* C17: save stores the record exactly when it passes validation (required
\* fields present; id at most 100, note at most 500, text at most 1000, url at
\* most 2000 characters; platform one of the four; timestamp not in the future
\* and at most one year old) and no record with the same (conversationId,
\* messageId) exists in the store; a save that does not store the record
\* leaves the store as it was.
C17_SavePersistsIffAccepted ==
  [][LET b == last'.bm
         passes == /\ b.id # 0 /\ b.platform # "" /\ b.conversationId # << "", 0 >>
                   /\ b.messageId # NoId
                   /\ b.len.id <= 100 /\ b.len.note <= 500
                   /\ b.len.messageText <= 1000 /\ b.len.url <= 2000
                   /\ b.platform \in {"claude", "chatgpt", "gemini", "copilot"}
                   /\ b.timestamp <= now /\ b.timestamp >= now - 365
         duplicate == \E j \in 1..Len(store) : SamePair(store[j], b)
     IN  /\ last'.kind = "saved" => /\ passes /\ ~duplicate
                                    /\ \E j \in 1..Len(store') : store'[j] = b
         /\ last'.kind = "rejected" => ~passes /\ store' = store
         /\ last'.kind = "skipped" => passes /\ duplicate /\ store' = store ]_vars

\* C18: when a save started by a marker activation is not accepted (the
\* record fails validation or its pair is already stored), the user gets an
\* alert and nothing else changes: bookmarksMap, bookmarkedMessageIds and the
\* markers of the page are as they were.
C18_RefusedSaveAlertsOnly ==
  [][last'.kind \in {"rejected", "skipped"} =>
       /\ last'.alert
       /\ bookmarksMap' = bookmarksMap
       /\ bookmarkedMessageIds' = bookmarkedMessageIds
       /\ dom' = dom]_vars

\* C19: when an initialization's loadBookmarksForConversation(c) has finished,
\* every bookmark in bookmarksMap belongs to c, and if the load succeeded
\* bookmarksMap holds exactly the stored bookmarks of c, each under its
\* messageId.
C19_IndexIsConversationOfLoad ==
  last.kind = "init" =>
    /\ \A id \in DOMAIN bookmarksMap :
         bookmarksMap[id].conversationId = currentConversationId
    /\ last.loaded =>
         /\ \A j \in 1..Len(store) :
              store[j].conversationId = currentConversationId =>
                getBookmark(bookmarksMap, store[j].messageId) = store[j]
         /\ \A id \in DOMAIN bookmarksMap :
              \E j \in 1..Len(store) : store[j] = bookmarksMap[id] /\ store[j].messageId = id

\* C20: every marker a scan has just inserted is in the bookmarked state
\* exactly when getBookmark returns a Bookmark for the turn's id; membership
\* in bookmarkedMessageIds does not decide it.
C20_MarkerFollowsIndex ==
  \A i \in last.inserted :
    NewestMarker(site, dom[i]).saved
      <=> getBookmark(bookmarksMap, NewestMarker(site, dom[i]).id) # NoBookmark

C20_InsertedBookmarked ==
  /\ last.kind \in {"init", "debounce"}
  /\ \E i \in last.inserted :
       /\ NewestMarker(site, dom[i]).saved
       /\ \E j \in 1..Len(store) : store[j].messageId = NewestMarker(site, dom[i]).id

\* C21: no reconcile pass requests a marker insertion for a turn whose id was
\* in processedMessageIds when the pass began.
C21_ProcessedTurnsSkipped ==
  [][last'.kind \in Scans =>
       \A i \in injectBookmarkButtons(site, dom, processedMessageIds, bookmarksMap).requested :
         TurnId(dom[i]) \notin processedMessageIds]_vars

\* C27: every reconcile pass requests marker insertions for user turns only,
\* and leaves every assistant turn without a marker.
C27_UserTurnsOnly ==
  [][last'.kind \in Scans =>
       /\ \A i \in injectBookmarkButtons(site, dom, processedMessageIds, bookmarksMap).requested :
            dom[i].role = "user"
       /\ \A i \in Slots : dom'[i].role = "assistant" => dom'[i].markers = <<>>]_vars

C27_ScanSawAssistantTurn ==
  /\ last.kind \in Scans
  /\ last.inserted # {}
  /\ \E i \in Slots : Listed(site, dom[i]) /\ dom[i].role = "assistant"
                       /\ InsertionPointFound(site, dom[i])

\* C24: the number a reconcile pass returns is the number of markers the pass
\* has added to the DOM.
C24_CountIsMarkersAdded ==
  [][last'.kind \in Scans =>
       injectBookmarkButtons(site, dom, processedMessageIds, bookmarksMap').count
         = Cardinality(last'.inserted)]_vars

\* C28: after every reconcile pass, the id of every message getMessages lists
\* is generateStableMessageId of the message's role and of the text the element
\* shows.
C28_IdIsFingerprintOfText ==
  last.kind \in Scans =>
    \A k \in 1..Len(getMessages(site, dom)) :
      getMessages(site, dom)[k].id
        = generateStableMessageId(getMessages(site, dom)[k].role, getMessages(site, dom)[k].text)

\* C29, as stated: the user turn "Hello world, how are you today, friend of
\* mine?" is listed with the id user_helloworldhowareyou_<hash>, <hash> the
\* base-36 form of the 32-bit hash of the first 300 characters.
C29_ScenarioFingerprint ==
  last.kind \in Scans =>
    \A k \in 1..Len(getMessages(site, dom)) :
      LET m == getMessages(site, dom)[k] IN
      (m.role = "user" /\ m.text = ScenarioText) =>
        m.id = << "user",
                  << 104, 101, 108, 108, 111, 119, 111, 114, 108, 100, 104, 111, 119, 97,
                     114, 101, 121, 111, 117 >>,
                  simpleHash(substring(ScenarioText, 300)) >>

\* C29, amended: the id is user_helloworldhoware_orjwhx: the prefix is taken
\* from the first 20 characters of the text ("Hello world, how are") before
\* the non-alphanumeric characters are removed, and orjwhx (digits 24 27 19 32
\* 17 33) is the base-36 form of the 32-bit hash.
C29_ScenarioFingerprintAmended ==
  last.kind \in Scans =>
    \A k \in 1..Len(getMessages(site, dom)) :
      LET m == getMessages(site, dom)[k] IN
      (m.role = "user" /\ m.text = ScenarioText) =>
        m.id = << "user",
                  << 104, 101, 108, 108, 111, 119, 111, 114, 108, 100, 104, 111, 119, 97,
                     114, 101 >>,
                  << 24, 27, 19, 32, 17, 33 >> >>

C29_ScenarioListed ==
  /\ last.kind \in Scans
  /\ \E k \in 1..Len(getMessages(site, dom)) :
       getMessages(site, dom)[k].role = "user" /\ getMessages(site, dom)[k].text = ScenarioText

\* C30: two listed messages of the same role whose texts agree on their first
\* 300 characters carry the same id (and so do two with the same text).
C30_FingerprintOfFirst300 ==
  last.kind \in Scans =>
    \A j, k \in 1..Len(getMessages(site, dom)) :
      LET a == getMessages(site, dom)[j]
          b == getMessages(site, dom)[k]
      IN  (a.role = b.role /\ substring(a.text, 300) = substring(b.text, 300)) => a.id = b.id

C30_LongTextsListed ==
  /\ last.kind \in Scans
  /\ \E j, k \in 1..Len(getMessages(site, dom)) :
       LET a == getMessages(site, dom)[j]
           b == getMessages(site, dom)[k]
       IN  a.role = b.role /\ a.text # b.text /\ Len(a.text) > 300
           /\ substring(a.text, 300) = substring(b.text, 300)
\* C22: when a reconcile pass ends, the id of every user turn the pass listed
\* is in processedMessageIds, whether its marker was inserted, no insertion
\* point was found, or the insertion threw.
C22_ListedTurnsProcessed ==
  [][last'.kind \in Scans =>
       \A k \in 1..Len(getMessages(site, dom)) :
         getMessages(site, dom)[k].role = "user"
           => getMessages(site, dom)[k].id \in processedMessageIds']_vars

\* C23: when the insertion throws for one turn of a scan, every later user
\* turn of the same scan that has no marker in reach still has its insertion
\* requested.
C23_ScanGoesOnAfterThrow ==
  [][last'.kind \in Scans =>
       LET st == injectBookmarkButtons(site, dom, processedMessageIds, bookmarksMap') IN
       \A i \in st.thrown : \A j \in Slots :
         (j > i /\ Listed(site, dom[j]) /\ dom[j].role = "user"
            /\ ~bookmarkButtonExists(site, dom[j]))
           => j \in st.requested /\ (~dom[j].layout.fails /\ InsertionPointFound(site, dom[j])
                                        => j \in last'.inserted)]_vars

C23_ThrowThenInserted ==
  /\ last.kind \in Scans
  /\ \E i, j \in Slots :
       /\ j > i /\ j \in last.inserted
       /\ Listed(site, dom[i]) /\ dom[i].markers = <<>> /\ dom[i].layout.fails
       /\ InsertionPointFound(site, dom[i])
\* C25: a failure thrown inside a callback of the engine never escapes the
\* callback to the host page.
C25_NoFailureEscapes ==
  last.threw => ~last.escaped
\* C26: once the retry budget is spent, a user turn that is rendered without
\* a marker in reach is eventually scanned: its id is processed and, where the
\* adapter finds an insertion point, it carries a marker.
C26_WatchModeScans ==
  \A i \in Slots :
    (/\ BootstrapOver
     /\ Listed(site, dom[i]) /\ dom[i].role = "user"
     /\ ~bookmarkButtonExists(site, dom[i]))
    ~> (/\ TurnId(dom[i]) \in processedMessageIds
        /\ InsertionPointFound(site, dom[i]) => dom[i].markers # <<>>)

\* C26, its case: in watch-only mode a debounce pass has inserted a marker.
C26_WatchPassInserted ==
  BootstrapOver /\ last.kind = "debounce" /\ last.inserted # {}
\* C31: platform.injectBookmarkButton called for a turn that already carries
\* the marker of an earlier call, with no host change in between, leaves the
\* turn's markers as they are, on every site and for every place of the
\* action bar.
C31_InsertMarkerIdempotent ==
  [][last'.kind \in Scans =>
       \A i \in injectBookmarkButtons(site, dom, processedMessageIds, bookmarksMap').requested :
         dom[i].markers # <<>> => dom'[i].markers = dom[i].markers]_vars
\* C32: a click on a Sidebar entry whose turn is not rendered raises the
\* not-found alert and scrolls nowhere; when the turn is rendered it scrolls
\* to an element that shows this turn and raises no alert.
C32_ScrollFindsRenderedTurn ==
  last.kind = "scroll" =>
    IF \E i \in Slots : /\ dom[i].present
                        /\ generateStableMessageId(dom[i].role, trim(dom[i].text))
                             = last.bm.messageId
    THEN /\ ~last.alert
         /\ last.target \in Slots
         /\ generateStableMessageId(dom[last.target].role, trim(dom[last.target].text))
              = last.bm.messageId
    ELSE last.alert /\ last.target = 0
\* C33: when the bootstrap of a session completes with the bookmarks of the
\* conversation on display loaded, every rendered user turn that has a stored
\* bookmark in this conversation carries a marker in the bookmarked state.
C33_StoredTurnsMarkedAfterBootstrap ==
  (/\ last.kind = "init" /\ last.loaded
   /\ url = lastUrl
   /\ currentConversationId = getConversationId(site, url, now))
  => \A i \in Slots :
       (/\ dom[i].present /\ dom[i].role = "user"
        /\ \E j \in 1..Len(store) :
             /\ store[j].conversationId = currentConversationId
             /\ store[j].messageId
                  = generateStableMessageId("user", trim(dom[i].text)))
       => \E k \in 1..Len(dom[i].markers) : dom[i].markers[k].saved
\* C34: whatever calls overlap, a save that resolves as stored (of a turn the
\* Store holds no record of) leaves the Store holding what it held plus the new
\* record, and a delete that resolves leaves it holding what it held minus the
\* record of the deleted id.
C34_WritesTakeEffectOnStore ==
  [][/\ last'.kind = "saved" /\ ~exists(store, last'.bm)
        => store' = Append(store, last'.bm)
     /\ last'.kind = "deleted" => store' = filtered(store, last'.bm.id)]_vars
C36_OtherRecordsUntouched ==
  [][(last'.kind \in {"saved", "deleted"})
       => /\ \A j \in 1..Len(store) :
               store[j].id # last'.bm.id
                 => \E k \in 1..Len(store') : store'[k] = store[j]
          /\ \A k \in 1..Len(store') :
               store'[k].id # last'.bm.id
                 => \E j \in 1..Len(store) : store[j] = store'[k]]_vars
\* C37: every record the Store holds is returned by getByConversation for its
\* conversation, however much time has passed since it was stored.
C37_StoredRecordsListed ==
  \A j \in 1..Len(store) :
    LET listed == getByConversation(store, store[j].conversationId, now)
    IN  \E k \in 1..Len(listed) : listed[k] = store[j]
\* C38: a bookmark stored in a session that stays at one location carries the
\* conversationId under which the session's bookmarks were loaded.
C38_SavedUnderLoadedConversation ==
  (last.kind = "saved" /\ url = lastUrl /\ PendingLoads = 0 /\ initTimers = <<>>)
    => last.bm.conversationId = currentConversationId
\* C39: the hash part of every fingerprint is a sequence of base-36 digits
\* that denotes |h|, where h is the accumulator of h := 31*h + charCode kept to
\* signed 32 bits over the first 300 characters of the text; it lies in 0..2^31.
C39_HashIsRolling32 ==
  \A i \in Slots :
    (dom[i].present /\ dom[i].dataId # NoId)
    => \E sample \in { substring(trim(dom[i].text), SampleLength) } :
       \E value \in { FromBase36(dom[i].dataId[3]) } :
         /\ \A k \in 1..Len(dom[i].dataId[3]) : dom[i].dataId[3][k] \in 0..35
         /\ value = Magnitude(RollingRange(sample, 1, Len(sample), << 0, 0 >>))
         /\ value[1] < 32768 \/ value = << 32768, 0 >>

\* C39, its case: a rendered turn whose hash is 2^31, the magnitude of the
\* accumulator -2^31, next to one whose accumulator ended negative.
C39_HashAtTwoToThe31 ==
  /\ \E i \in Slots : /\ dom[i].present /\ dom[i].dataId # NoId
                       /\ FromBase36(dom[i].dataId[3]) = << 32768, 0 >>
  /\ \E i \in Slots : /\ dom[i].present /\ dom[i].dataId # NoId
                       /\ HashFrom(trim(dom[i].text), 1, << 0, 0 >>)[1] > 32768
====
